---- MODULE Spec2Model ----
(***************************************************************************)
(* Model of seasocks' per-connection engine, src/main/c/Connection.cpp:    *)
(* the non-blocking write path (write / flush / safeSend), the close and   *)
(* finalise paths, the user-callable operations and the response           *)
(* serialisers that feed the output buffer.                                *)
(*                                                                         *)
(* Bytes are symbolic.  A byte string is a sequence of runs                *)
(*     [kind, len, lo, hi]                                                 *)
(* standing for bytes lo .. hi-1 of a blob of `len` bytes (a message, a    *)
(* response head, a file chunk, ...).  Strings are kept canonical (no      *)
(* empty run, adjacent runs of one blob merged), so equality of two        *)
(* strings is equality of the byte sequences.  Sizes are the real ones:    *)
(* MaxBufferSize is 16 MiB.                                                *)
(***************************************************************************)
EXTENDS Integers, Sequences, FiniteSets, TLC

\* ------------------------------------------------------------------ bounds
\* Number of output-producing operations explored on one connection.
MaxOps == 2
\* Number of ::send calls that take only part of what they are offered.
MaxPartial == 1
\* Number of failed changes of the write-event subscription.
MaxSubFailures == 1
\* Length given to one buffered header line (bufferLine), CRLF included.
LineLen == 20
\* Fixed part of an error document around the body text (sendError).
ErrorDocOverhead == 100

\* -------------------------------------------------------- program constants
MaxBufferSize == 16777216
ReadWriteBufferSize == 16384
MaxWebsocketMessageSize == 16384
MaxHeadersSize == 65536

\* 20 MiB, the over-cap payload of the output-buffer-cap scenario.
TwentyMiB == 20 * 1024 * 1024
EightMiB == 8 * 1024 * 1024

Handlers == {"h1", "h2"}
NoHandler == "none"

LoopThread == "loop"
ForeignThread == "worker"

\* Outcomes of one ::send call on the non-blocking socket: a failure other
\* than EAGAIN, EAGAIN/EWOULDBLOCK, or a number of bytes taken (half of what
\* was offered, or everything).
SendOutcomes == {"err", "again", "half", "all"}
WholeOutcomes == {"err", "again", "all"}

\* ------------------------------------------------------------ byte strings
Run(kind, len, lo, hi) == [kind |-> kind, len |-> len, lo |-> lo, hi |-> hi]

\* The whole blob of `len` bytes as a string.
Blob(kind, len) == IF len = 0 THEN <<>> ELSE <<Run(kind, len, 0, len)>>

RECURSIVE Size(_)
Size(b) == IF b = <<>> THEN 0 ELSE (Head(b).hi - Head(b).lo) + Size(Tail(b))

Append1(b, r) ==
    IF r.hi <= r.lo THEN b
    ELSE IF b # <<>> /\ b[Len(b)].kind = r.kind /\ b[Len(b)].len = r.len
                     /\ b[Len(b)].hi = r.lo
         THEN [b EXCEPT ![Len(b)].hi = r.hi]
         ELSE Append(b, r)

RECURSIVE Cat(_, _)
Cat(a, b) == IF b = <<>> THEN a ELSE Cat(Append1(a, Head(b)), Tail(b))

\* The first n bytes of b.
RECURSIVE Take(_, _)
Take(b, n) ==
    IF n <= 0 \/ b = <<>> THEN <<>>
    ELSE LET r == Head(b)
             k == r.hi - r.lo
         IN IF n >= k THEN <<r>> \o Take(Tail(b), n - k)
            ELSE <<[r EXCEPT !.hi = r.lo + n]>>

\* b without its first n bytes.
RECURSIVE Drop(_, _)
Drop(b, n) ==
    IF n <= 0 \/ b = <<>> THEN b
    ELSE LET r == Head(b)
             k == r.hi - r.lo
         IN IF n >= k THEN Drop(Tail(b), n - k)
            ELSE <<[r EXCEPT !.lo = r.lo + n]>> \o Tail(b)

\* ----------------------------------------------------------------- strings
\* Strings are sequences of characters.
Digits == <<"0", "1", "2", "3", "4", "5", "6", "7", "8", "9">>

IsDigit(c) == \E d \in 1..10 : Digits[d] = c

DigitValue(c) == (CHOOSE d \in 1..10 : Digits[d] = c) - 1

\* The value of the leading decimal digits of str, after acc.
RECURSIVE atoiDigits(_, _)
atoiDigits(str, acc) ==
    IF str = <<>> \/ ~IsDigit(Head(str)) THEN acc
    ELSE atoiDigits(Tail(str), 10 * acc + DigitValue(Head(str)))

RECURSIVE skipSpaces(_)
skipSpaces(str) ==
    IF str # <<>> /\ Head(str) = " " THEN skipSpaces(Tail(str)) ELSE str

\* atoi: leading white space, an optional sign, then digits up to the first
\* other character; 0 when there is no digit.
atoi(str) ==
    LET t == skipSpaces(str)
    IN IF t = <<>> THEN 0
       ELSE IF Head(t) = "-" THEN 0 - atoiDigits(Tail(t), 0)
       ELSE IF Head(t) = "+" THEN atoiDigits(Tail(t), 0)
       ELSE atoiDigits(t, 0)

\* std::string::find: the 0-based position of the first c, -1 for npos.
find(str, c) ==
    IF \E i \in 1..Len(str) : str[i] = c
    THEN (CHOOSE i \in 1..Len(str) : str[i] = c /\ \A j \in 1..(i - 1) : str[j] # c) - 1
    ELSE -1

\* substr(pos, n) and substr(pos), 0-based.
substr(str, pos, n) == SubSeq(str, pos + 1, pos + n)
substrFrom(str, pos) == SubSeq(str, pos + 1, Len(str))

\* split(text, sep): the pieces between separators.
RECURSIVE split(_, _)
split(str, sep) ==
    IF find(str, sep) = -1 THEN <<str>>
    ELSE <<substr(str, 0, find(str, sep))>> \o split(substrFrom(str, find(str, sep) + 1), sep)

\* ------------------------------------------------------------ input bytes
\* Input is symbolic too: _inBuf is a sequence of pieces of n bytes each,
\* named by what the peer sent: header bytes with no CRLFCRLF in them
\* (partialHeaders), the rest of a header block with its CRLFCRLF (headers,
\* with what the parse of the whole block finds), body bytes, the Hixie key
\* bytes, a whole Hixie frame (0x00, payload, 0xff) or the start, middle and
\* end of one (only frame and frameEnd hold a 0xff, only frame and frameStart
\* begin with 0x00), a byte that starts no frame, and a whole Hybi frame with
\* the decoder's result for it.
Min(a, b) == IF a < b THEN a ELSE b

RECURSIVE InSize(_)
InSize(buf) == IF buf = <<>> THEN 0 ELSE Head(buf).n + InSize(Tail(buf))

\* buf without its first k bytes.
RECURSIVE DropBytes(_, _)
DropBytes(buf, k) ==
    IF k <= 0 \/ buf = <<>> THEN buf
    ELSE IF k >= Head(buf).n THEN DropBytes(Tail(buf), k - Head(buf).n)
    ELSE <<[Head(buf) EXCEPT !.n = @ - k]>> \o Tail(buf)

\* --------------------------------------------------------------- requests
\* A request as processHeaders and the collaborators see it: what the parse
\* finds (syntax, verb, the upgrade flags, Content-Length, the number of
\* Sec-WebSocket-Origin/Location lines its Host and Origin headers add), what
\* the Server answers (wsHandler: getWebSocketHandler; handle: the page
\* handlers' result with its response; embedded: findEmbeddedContent's length
\* or -1) and the static file behind the URI (file: its size or -1).
BaseRequest ==
    [syntax |-> "ok", verb |-> "Get", connectionUpgrade |-> FALSE,
     webSocketUpgrade |-> FALSE, wsHandler |-> NoHandler, versionHeader |-> <<>>,
     embedded |-> -1, livestats |-> FALSE, contentLength |-> 0, handle |-> "null",
     resp |-> [code |-> "Ok", payload |-> 0, keepAlive |-> TRUE],
     file |-> -1, cacheable |-> FALSE, extraLines |-> 0]

NoRequest == BaseRequest

Upgrade == [BaseRequest EXCEPT !.connectionUpgrade = TRUE, !.webSocketUpgrade = TRUE,
                               !.extraLines = 2]

\* Payload sizes of keep-alive handler responses: half the cap, and over it.
PayloadLens == {EightMiB, TwentyMiB}
\* File sizes: one full chunk of the copy loop and a shorter one.
FileSizes == {ReadWriteBufferSize + 5}
\* Message lengths given to send(): half the cap and over the cap (the 64-bit
\* length encoding of a Hybi frame); the binary message takes the 16-bit
\* encoding and a PONG the 7-bit one.
MessageLens == {EightMiB, TwentyMiB}
BinaryLens == {300}

Response(code, payload, keepAlive) ==
    [BaseRequest EXCEPT !.handle = "response",
                        !.resp = [code |-> code, payload |-> payload,
                                  keepAlive |-> keepAlive]]

\* The requests read in the explored runs: a malformed one, a static file
\* longer than one chunk of the copy loop, embedded content, handler
\* responses (keep-alive and not, small, half the cap and over the cap, an
\* error with an over-cap body), a POST with a body, and WebSocket upgrades (Hixie, Hybi,
\* a rejected version, on two end points).
Requests ==
    {[BaseRequest EXCEPT !.syntax = "malformed"]}
    \cup {[BaseRequest EXCEPT !.file = n] : n \in FileSizes}
    \cup {[BaseRequest EXCEPT !.embedded = 5]}
    \cup {Response("Ok", n, TRUE) : n \in PayloadLens}
    \cup {Response("Ok", 5, FALSE),
          Response("InternalServerError", TwentyMiB, TRUE)}
    \cup {[Response("Ok", 5, TRUE) EXCEPT !.verb = "Post", !.contentLength = 10]}
    \cup {[Upgrade EXCEPT !.wsHandler = "h1", !.versionHeader = v] :
             v \in {<<"0">>, <<"7">>, <<"1", "3">>}}
    \cup {[Upgrade EXCEPT !.wsHandler = "h2", !.versionHeader = <<"7">>]}

\* The pieces of input.
Piece(t, n) ==
    [t |-> t, n |-> n, req |-> NoRequest, msg |-> "NoMessage", len |-> 0, nul |-> -1]
\* A whole Hixie frame of n bytes whose payload has its first 0x00 byte at
\* offset k.
NulFrame(n, k) == [Piece("frame", n) EXCEPT !.nul = k]
\* A header block of HeaderLen bytes.
HeaderLen == 100
Headers(req) == [Piece("headers", HeaderLen) EXCEPT !.req = req]
\* A Hybi frame of a 2-byte header and len bytes of payload.
HybiFrame(msg, len) == [Piece("hybi", len + 2) EXCEPT !.msg = msg, !.len = len]

\* ------------------------------------------------------------------- state
VARIABLES
    conn,       \* the Connection object's fields
    net,        \* the socket: bytes transmitted, ::shutdown and ::close calls
    srv,        \* the Server's view: write-event subscription, remove() calls
    cb,         \* callbacks delivered to each WebSocket handler
    obs,        \* observations of the calls made (history, not program state)
    xfer,       \* position inside sendStaticData's copy loop
    destroyed,  \* the Connection object has been deleted
    nOps,       \* output-producing operations so far
    rng         \* a static-file request seen by the range engine alone

vars == <<conn, net, srv, cb, obs, xfer, destroyed, nOps, rng>>

NoXfer == [active |-> FALSE, bytesLeft |-> 0, off |-> 0, size |-> 0, resume |-> FALSE]

\* No request before the range engine.
NoRanges ==
    [phase |-> "none", header |-> <<>>, size |-> 0, parsed |-> <<>>, ranges |-> <<>>,
     status |-> 0, contentLength |-> 0, next |-> 1, written |-> 0]

InitConn ==
    [fd |-> 1, shutdown |-> FALSE, hadSendError |-> FALSE, closeOnEmpty |-> FALSE,
     registeredForWriteEvents |-> FALSE, bytesSent |-> 0, shutdownByUser |-> FALSE,
     state |-> "READING_HEADERS", outBuf |-> <<>>, webSocketHandler |-> NoHandler,
     hasRequest |-> FALSE, hixieExtraHeaders |-> 0, pending |-> NoRequest,
     inBuf |-> <<>>, body |-> 0]

InitObs ==
    [accepted |-> <<>>,          \* bytes write() took, in call order
     sendRefused |-> FALSE,      \* safeSend was called after shutdown and sent nothing
     sentAfterShutdown |-> FALSE,\* safeSend was called after shutdown and sent bytes
     sendFailed |-> FALSE,       \* a ::send failed with an errno other than EAGAIN
     eagainSeen |-> FALSE,       \* a ::send failed with EAGAIN/EWOULDBLOCK
     eagainEffect |-> FALSE,     \* ... and safeSend changed a flag or closed
     blockedWrite |-> FALSE,     \* write() was called while closed or close-pending
     blockedEffect |-> FALSE,    \* ... and returned true or changed something
     capWrite |-> FALSE,         \* a write's unsent tail would have exceeded the cap
     capEffect |-> FALSE,        \* ... and write did not close, fail and drop the tail
     overCap |-> FALSE,          \* write() took on a block of more than 16 MiB
     flushOkSeen |-> FALSE,      \* a flush() call reported success
     flushSubBad |-> FALSE,      \* ... but subscribed <=> buffer non-empty failed
     finalised |-> FALSE,        \* finalise() has run
     boundAtFinalise |-> NoHandler,
     lateFinalise |-> FALSE,     \* finalise() ran again after the first
     lateCallback |-> FALSE,     \* ... and called back, removed or closed something
     doubleSub |-> FALSE,        \* two subscribes, or two unsubscribes, in a row
     emitted |-> {},             \* the kinds of the blocks write() took bytes of
     declared |-> -1,            \* Content-Length of the current request, -1: none yet
     dispatched |-> 0,           \* calls of the page handlers for the current request
     consumed |-> 0,             \* body bytes taken from _inBuf
     earlyDispatch |-> FALSE,    \* ... one made before the body was complete
     threw |-> "no",             \* the page handler threw (throws, throwsOther)
     threwOpen |-> FALSE,        \* ... on a connection that takes writes
     escaped |-> FALSE,          \* an exception left the connection's code
     versionSeen |-> FALSE,      \* a WebSocket request reached the version test
     versionHeader |-> <<>>,     \* ... with this Sec-WebSocket-Version text
     versionState |-> "none",    \* ... _state when its dispatch returned
     versionEmitted |-> {},      \* ... and what had been emitted by then
     connectState |-> "none",    \* _state when onConnect was called
     onData |-> 0,               \* messages delivered to onData
     messages |-> <<>>,          \* ... the length of each, in order
     hixieInput |-> <<>>,        \* _inBuf when handleHixieWebSocket began
     lateCall |-> FALSE,         \* a callback or dispatch made on a closed connection
     broken |-> FALSE,           \* a protocol error or a CLOSE frame was met
     afterError |-> FALSE,       \* ... and a message was delivered after it
     pings |-> 0,                \* PING frames decoded
     pongs |-> 0,                \* ... and whole PONG frames with their payload written
     aborted |-> FALSE,          \* the process was aborted
     maxDelivered |-> 0,         \* ... and the longest of them
     foreignTouch |-> FALSE]     \* a call from another thread touched state unchecked

Init ==
    /\ conn = InitConn
    /\ net = [wire |-> <<>>, partials |-> 0, shutdownCalls |-> 0, closeCalls |-> 0]
    /\ srv = [subscribed |-> FALSE, lastSub |-> "none", subFailures |-> 0,
              removeCalls |-> 0]
    /\ cb = [onConnect |-> [h \in Handlers |-> 0],
             onDisconnect |-> [h \in Handlers |-> 0]]
    /\ obs = InitObs
    /\ xfer = NoXfer
    /\ destroyed = FALSE
    /\ nOps = 0
    /\ rng = NoRanges

\* The observations at the start of an operation: what was written and the
\* first finalise are kept, the rest is about the operation under way.
Observed ==
    [InitObs EXCEPT !.accepted = obs.accepted, !.finalised = obs.finalised,
                    !.boundAtFinalise = obs.boundAtFinalise,
                    !.dispatched = obs.dispatched, !.declared = obs.declared,
                    !.broken = obs.broken, !.afterError = obs.afterError,
                    !.aborted = obs.aborted]

\* The working record the operations transform: the state, plus what the
\* environment answers during the call (env) and the call's results.
Pack(thread, sends, subOk) ==
    [conn |-> conn, net |-> net, srv |-> srv, cb |-> cb, obs |-> Observed,
     xfer |-> xfer,
     env |-> [thread |-> thread, api |-> FALSE, sends |-> sends, subOk |-> subOk,
              checked |-> FALSE, caught |-> FALSE, closes |-> FALSE, ub |-> "data"],
     ret |-> TRUE, sent |-> 0, halt |-> FALSE]

\* The same, for a call that enters through the public interface.
PackApi(thread, sends, subOk) ==
    [Pack(thread, sends, subOk) EXCEPT !.env.api = TRUE]

Unpack(result) ==
    \E s \in {result} :
        /\ conn' = s.conn
        /\ net' = s.net
        /\ srv' = s.srv
        /\ cb' = s.cb
        /\ obs' = s.obs
        /\ xfer' = s.xfer
        /\ rng' = rng

\* ------------------------------------------------------------- evaluation
\* F applied to the value of v, which is evaluated once.
With(v, F(_)) == CHOOSE y \in {F(x) : x \in {v}} : TRUE

\* ----------------------------------------------------- the Server's services
\* Server::checkThread: a call from a thread other than the event-loop thread
\* is caught there and the operation goes no further.
checkThread(s) ==
    IF s.env.thread = LoopThread
    THEN [s EXCEPT !.env.checked = TRUE]
    ELSE [s EXCEPT !.env.checked = TRUE, !.env.caught = TRUE]

\* Server::subscribeToWriteEvents / unsubscribeFromWriteEvents: the epoll
\* change succeeds or fails (env.subOk); ret is the call's result.
subscribeToWriteEvents(s) ==
    IF s.env.subOk
    THEN [s EXCEPT !.srv.subscribed = TRUE, !.srv.lastSub = "sub",
                   !.obs.doubleSub = @ \/ s.srv.lastSub = "sub", !.ret = TRUE]
    ELSE [s EXCEPT !.srv.subFailures = @ + 1, !.ret = FALSE]

unsubscribeFromWriteEvents(s) ==
    IF s.env.subOk
    THEN [s EXCEPT !.srv.subscribed = FALSE, !.srv.lastSub = "unsub",
                   !.obs.doubleSub = @ \/ s.srv.lastSub = "unsub", !.ret = TRUE]
    ELSE [s EXCEPT !.srv.subFailures = @ + 1, !.ret = FALSE]

\* An access to the connection's state by an operation of the public
\* interface: recorded when it is made from another thread with no thread
\* check made yet in this call.
touch(s) ==
    IF s.env.checked \/ ~s.env.api THEN s
    ELSE [s EXCEPT !.obs.foreignTouch = @ \/ s.env.thread # LoopThread]

\* ------------------------------------------------------- close and finalise
closed(s) == s.conn.fd = -1 \/ s.conn.shutdown

closeInternal(s) ==
    With(checkThread(s), LAMBDA s1 :
        IF s1.env.caught THEN s1
        ELSE [s1 EXCEPT !.net.shutdownCalls =
                            IF s1.conn.fd # -1 /\ ~s1.conn.shutdown THEN @ + 1 ELSE @,
                        !.conn.shutdown = TRUE])

close(s) ==
    With(touch([s EXCEPT !.conn.shutdownByUser = TRUE]), LAMBDA s1 : closeInternal(s1))

closeWhenEmpty(s) ==
    With(touch(s), LAMBDA s1 :
        IF s1.conn.outBuf = <<>>
        THEN closeInternal(s1)
        ELSE [s1 EXCEPT !.conn.closeOnEmpty = TRUE])

\* finalise that leaves the handler bound.
finalise_noReset(s) ==
    With(IF s.conn.webSocketHandler # NoHandler
         THEN [s EXCEPT !.cb.onDisconnect[s.conn.webSocketHandler] = @ + 1]
         ELSE s, LAMBDA s1 :
    With(IF s1.conn.fd # -1
         THEN [s1 EXCEPT !.srv.removeCalls = @ + 1, !.net.closeCalls = @ + 1]
         ELSE s1, LAMBDA s2 :
    [s2 EXCEPT !.conn.fd = -1]))

finalise(s) ==
    With(IF s.conn.webSocketHandler # NoHandler
         THEN [s EXCEPT !.cb.onDisconnect[s.conn.webSocketHandler] = @ + 1,
                        !.conn.webSocketHandler = NoHandler]
         ELSE s, LAMBDA s1 :
    With(IF s1.conn.fd # -1
         THEN [s1 EXCEPT !.srv.removeCalls = @ + 1, !.net.closeCalls = @ + 1]
         ELSE s1, LAMBDA s2 :
    [s2 EXCEPT !.conn.fd = -1]))

\* finalise as called: the first call's bound handler is remembered, and a
\* later call that calls back, removes or closes anything is recorded.
finaliseCall(s0) ==
    With(s0, LAMBDA s :
    With(finalise(s), LAMBDA t :
        IF s.obs.finalised
        THEN [t EXCEPT !.obs.lateFinalise = TRUE,
                       !.obs.lateCallback =
                           @ \/ t.cb # s.cb \/ t.net # s.net \/ t.srv # s.srv]
        ELSE [t EXCEPT !.obs.finalised = TRUE,
                       !.obs.boundAtFinalise = s.conn.webSocketHandler]))

\* ------------------------------------------------------------ the send path
Amount(r, size) ==
    IF r = "half" THEN (size + 1) \div 2 ELSE size

\* ::send answers r: EAGAIN, another failure, or Amount(r, size) bytes taken.
\* sent is safeSend's int result: -1, 0 (EAGAIN) or the number of bytes sent.
sendOn(s, data, r) ==
    IF r = "again" THEN [s EXCEPT !.sent = 0]
    ELSE IF r = "err" THEN [closeInternal(s) EXCEPT !.sent = -1]
    ELSE [s EXCEPT !.conn.bytesSent = @ + Amount(r, Size(data)),
                   !.net.wire = Cat(@, Take(data, Amount(r, Size(data)))),
                   !.net.partials = IF Amount(r, Size(data)) < Size(data) THEN @ + 1 ELSE @,
                   !.sent = Amount(r, Size(data))]

\* safeSend that does not look at _shutdown.
safeSend_noShutdownCheck(s, data) ==
    IF s.conn.fd = -1 \/ s.conn.hadSendError
    THEN [s EXCEPT !.sent = -1]
    ELSE With([s EXCEPT !.env.sends = Tail(@)], LAMBDA s1 :
             sendOn(s1, data, Head(s.env.sends)))

safeSend(s, data) ==
    IF s.conn.fd = -1 \/ s.conn.hadSendError \/ s.conn.shutdown
    THEN [s EXCEPT !.sent = -1]
    ELSE With([s EXCEPT !.env.sends = Tail(@)], LAMBDA s1 :
             sendOn(s1, data, Head(s.env.sends)))

\* safeSend as called: what ::send answered is recorded with the call's effect.
ObserveSend(s, t, r) ==
    [t EXCEPT !.obs.sendRefused =
                  @ \/ (s.conn.shutdown /\ t.sent = -1 /\ t.net = s.net),
              !.obs.sentAfterShutdown =
                  @ \/ (s.conn.shutdown /\ t.conn.bytesSent # s.conn.bytesSent)
                    \/ (s.conn.shutdown /\ t.net.wire # s.net.wire),
              !.obs.sendFailed = @ \/ r = "err",
              !.obs.eagainSeen = @ \/ r = "again",
              !.obs.eagainEffect =
                  @ \/ (r = "again" /\ (t.conn # s.conn \/ t.net # s.net \/ t.sent # 0))]

safeSendCall(s0, data) ==
    With(s0, LAMBDA s :
    With(safeSend(s, data), LAMBDA t :
        ObserveSend(s, t, IF t.env.sends # s.env.sends THEN Head(s.env.sends) ELSE "none")))

\* flush after the sent prefix is erased: the subscription change.
flushSubscription(s2) ==
    IF s2.conn.outBuf # <<>> /\ ~s2.conn.registeredForWriteEvents
    THEN With(subscribeToWriteEvents(s2), LAMBDA u :
             IF ~u.ret THEN u ELSE [u EXCEPT !.conn.registeredForWriteEvents = TRUE])
    ELSE IF s2.conn.outBuf = <<>> /\ s2.conn.registeredForWriteEvents
    THEN With(unsubscribeFromWriteEvents(s2), LAMBDA u :
             IF ~u.ret THEN u ELSE [u EXCEPT !.conn.registeredForWriteEvents = FALSE])
    ELSE [s2 EXCEPT !.ret = TRUE]

flush(s) ==
    IF s.conn.outBuf = <<>> THEN [s EXCEPT !.ret = TRUE]
    ELSE With(safeSendCall(s, s.conn.outBuf), LAMBDA s1 :
         IF s1.sent = -1 THEN [s1 EXCEPT !.ret = FALSE]
         ELSE With([s1 EXCEPT !.conn.outBuf = Drop(@, s1.sent)], LAMBDA s2 :
              With(flushSubscription(s2), LAMBDA s3 :
                  IF ~s3.ret THEN s3
                  ELSE IF s3.conn.outBuf = <<>> /\ ~closed(s3) /\ s3.conn.closeOnEmpty
                       THEN [closeInternal(s3) EXCEPT !.ret = TRUE]
                       ELSE s3)))

\* flush as called: a successful return is checked against the subscription.
flushCall(s0) ==
    With(flush(s0), LAMBDA t :
        IF t.ret
        THEN [t EXCEPT !.obs.flushOkSeen = TRUE,
                       !.obs.flushSubBad =
                           @ \/ (t.srv.subscribed # (t.conn.outBuf # <<>>))]
        ELSE t)

\* writeTail without the cap.
writeTail_noCap(s1, data, flushIt) ==
    With([s1 EXCEPT !.conn.outBuf = Cat(@, Drop(data, s1.sent)),
                    !.obs.accepted = Cat(@, data)], LAMBDA s3 :
        IF flushIt THEN flushCall(s3) ELSE [s3 EXCEPT !.ret = TRUE])

\* writeTail that refuses the tail over the cap but leaves the connection open.
writeTail_noClose(s1, data, flushIt) ==
    With([s1 EXCEPT !.obs.accepted = Cat(@, Take(data, s1.sent))], LAMBDA s2 :
        IF Size(s2.conn.outBuf) + (Size(data) - s2.sent) >= MaxBufferSize
        THEN [s2 EXCEPT !.ret = FALSE]
        ELSE With([s2 EXCEPT !.conn.outBuf = Cat(@, Drop(data, s2.sent)),
                             !.obs.accepted = Cat(@, Drop(data, s2.sent))], LAMBDA s3 :
                 IF flushIt THEN flushCall(s3) ELSE [s3 EXCEPT !.ret = TRUE]))

\* writeTail that copies from the start of the block, not from the unsent tail.
writeTail_fromStart(s1, data, flushIt) ==
    With([s1 EXCEPT !.obs.accepted = Cat(@, Take(data, s1.sent))], LAMBDA s2 :
        IF Size(s2.conn.outBuf) + (Size(data) - s2.sent) >= MaxBufferSize
        THEN [closeInternal(s2) EXCEPT !.ret = FALSE]
        ELSE With([s2 EXCEPT !.conn.outBuf = Cat(@, Take(data, Size(data) - s2.sent)),
                             !.obs.accepted = Cat(@, Drop(data, s2.sent))], LAMBDA s3 :
                 IF flushIt THEN flushCall(s3) ELSE [s3 EXCEPT !.ret = TRUE]))

\* write after the fast path: s1.sent bytes of data went out directly (0 when
\* the fast path was not taken or met EAGAIN); buffer the tail.
writeTail(s1, data, flushIt) ==
    With([s1 EXCEPT !.obs.accepted = Cat(@, Take(data, s1.sent))], LAMBDA s2 :
        IF Size(s2.conn.outBuf) + (Size(data) - s2.sent) >= MaxBufferSize
        THEN [closeInternal(s2) EXCEPT !.ret = FALSE]
        ELSE With([s2 EXCEPT !.conn.outBuf = Cat(@, Drop(data, s2.sent)),
                             !.obs.accepted = Cat(@, Drop(data, s2.sent))], LAMBDA s3 :
                 IF flushIt THEN flushCall(s3) ELSE [s3 EXCEPT !.ret = TRUE]))

\* write that goes on while a close-when-empty is pending.
write_noPendingCheck(s, data, flushIt) ==
    IF closed(s) THEN [s EXCEPT !.ret = FALSE]
    ELSE IF Size(data) # 0
    THEN IF s.conn.outBuf = <<>> /\ flushIt
         THEN With(safeSendCall(s, data), LAMBDA s1 :
                  IF s1.sent = Size(data)
                  THEN [s1 EXCEPT !.ret = TRUE, !.obs.accepted = Cat(@, data)]
                  ELSE IF s1.sent = -1 THEN [s1 EXCEPT !.ret = FALSE]
                  ELSE writeTail(s1, data, flushIt))
         ELSE With([s EXCEPT !.sent = 0], LAMBDA s1 : writeTail(s1, data, flushIt))
    ELSE IF flushIt THEN flushCall(s) ELSE [s EXCEPT !.ret = TRUE]

write(s, data, flushIt) ==
    IF closed(s) \/ s.conn.closeOnEmpty THEN [s EXCEPT !.ret = FALSE]
    ELSE IF Size(data) # 0
    THEN IF s.conn.outBuf = <<>> /\ flushIt
         THEN With(safeSendCall(s, data), LAMBDA s1 :
                  IF s1.sent = Size(data)
                  THEN [s1 EXCEPT !.ret = TRUE, !.obs.accepted = Cat(@, data)]
                  ELSE IF s1.sent = -1 THEN [s1 EXCEPT !.ret = FALSE]
                  ELSE writeTail(s1, data, flushIt))
         ELSE With([s EXCEPT !.sent = 0], LAMBDA s1 : writeTail(s1, data, flushIt))
    ELSE IF flushIt THEN flushCall(s) ELSE [s EXCEPT !.ret = TRUE]

\* write as called: a call made while closed or close-pending, and a call whose
\* unsent tail would exceed the cap, are recorded with what they did.
ObserveWrite(s, t, data, blocked, overflow) ==
    [t EXCEPT
       !.obs.emitted = IF t.obs.accepted # s.obs.accepted THEN @ \cup {data[1].kind} ELSE @,
       !.obs.blockedWrite = @ \/ blocked,
       !.obs.blockedEffect =
           @ \/ (blocked /\ (t.ret \/ t.conn # s.conn \/ t.net # s.net \/ t.srv # s.srv)),
       !.obs.overCap = @ \/ (~blocked /\ Size(data) > MaxBufferSize),
       !.obs.capWrite = @ \/ overflow,
       !.obs.capEffect =
           @ \/ (overflow /\ (t.ret \/ ~t.conn.shutdown \/ t.conn.outBuf # s.conn.outBuf))]

writeCall(s0, data, flushIt) ==
    With(s0, LAMBDA s :
    With(write(s, data, flushIt), LAMBDA t :
        ObserveWrite(s, t, data,
            closed(s) \/ s.conn.closeOnEmpty,
            ~(closed(s) \/ s.conn.closeOnEmpty)
              /\ Size(s.conn.outBuf) + Size(data)
                   - (t.conn.bytesSent - s.conn.bytesSent) > MaxBufferSize)))

\* ---------------------------------------------------------------- programs
\* What a handler does to the output side is a program: the sequence of the
\* calls it makes, in the order of its code.  mode says what the handler does
\* with a bool result: "return" leaves the handler with false when the call
\* fails (if (!f()) return false; / return f();), "ignore" goes on.
Cmd(op, data, flushIt, mode, arg) ==
    [op |-> op, data |-> data, flushIt |-> flushIt, mode |-> mode, arg |-> arg]

Write(data, flushIt, mode) == Cmd("write", data, flushIt, mode, 0)
Flush(mode) == Cmd("flush", <<>>, FALSE, mode, 0)
Call(op) == Cmd(op, <<>>, FALSE, "ignore", 0)
Assign(field, value) == Cmd(field, <<>>, FALSE, "ignore", value)

\* if (_webSocketHandler) _webSocketHandler->onConnect(this);
onConnect(s) ==
    IF s.conn.webSocketHandler # NoHandler
    THEN [s EXCEPT !.cb.onConnect[s.conn.webSocketHandler] = @ + 1]
    ELSE s

\* The request is kept (pending) when its body is still to be read.
awaitsBody(r) == r.contentLength > 0 /\ r.contentLength <= MaxBufferSize

\* _server->handle(*_request) is called: the dispatch is counted, with
\* whether the body was complete and whether the handler threw.
handleCalled(s, req) ==
    [s EXCEPT !.obs.dispatched = @ + 1,
              !.obs.lateCall = @ \/ closed(s),
              !.obs.earlyDispatch = @ \/ s.conn.body # req.contentLength,
              !.obs.threw = IF req.handle \in {"throws", "throwsOther"} THEN req.handle ELSE @,
              !.obs.threwOpen = @ \/ (req.handle \in {"throws", "throwsOther"}
                                       /\ ~closed(s) /\ ~s.conn.closeOnEmpty)]

\* The result of a bool call made in `mode`.
result(t, mode) ==
    IF mode = "return" THEN [t EXCEPT !.halt = ~t.ret] ELSE [t EXCEPT !.ret = TRUE]

step(s, c) ==
    CASE c.op = "write" -> result(writeCall(s, c.data, c.flushIt), c.mode)
      [] c.op = "flush" -> result(flushCall(s), c.mode)
      [] c.op = "closeWhenEmpty" -> closeWhenEmpty(s)
      [] c.op = "onConnect" -> [onConnect(s) EXCEPT !.obs.connectState = s.conn.state,
                                                    !.obs.lateCall = @ \/ closed(s)]
      [] c.op = "_state" -> [s EXCEPT !.conn.state = c.arg]
      [] c.op = "_webSocketHandler" -> [s EXCEPT !.conn.webSocketHandler = c.arg]
      [] c.op = "_request" ->
             [s EXCEPT !.conn.hasRequest = TRUE,
                       !.conn.pending = IF awaitsBody(c.arg) THEN c.arg ELSE NoRequest,
                       !.conn.body = 0,
                       !.obs.declared = c.arg.contentLength,
                       !.obs.dispatched = 0]
      [] c.op = "_hixieExtraHeaders" -> [s EXCEPT !.conn.hixieExtraHeaders = @ + c.arg]
      [] c.op = "copy" -> [s EXCEPT !.xfer = [active |-> TRUE, bytesLeft |-> c.arg,
                                              off |-> 0, size |-> c.arg,
                                              resume |-> FALSE]]
      [] c.op = "erase" -> [s EXCEPT !.conn.inBuf = DropBytes(@, c.arg)]
      [] c.op = "handle" -> handleCalled(s, c.arg)
      [] c.op = "webSocketVersion" ->
             [s EXCEPT !.obs.versionSeen = TRUE, !.obs.versionHeader = c.arg]
      [] c.op = "propagate" -> [s EXCEPT !.obs.escaped = TRUE, !.halt = TRUE]

\* The program run from s: ret is the handler's result.
RECURSIVE run(_, _)
run(s, program) ==
    IF program = <<>> \/ s.halt THEN s
    ELSE run(step(s, Head(program)), Tail(program))

\* ------------------------------------------------------- WebSocket sending
sendHybi(opcode, payload) ==
    <<Write(Blob(opcode, 1), FALSE, "return")>>
    \o (IF Size(payload) < 126
        THEN <<Write(Blob("len7", 1), FALSE, "return")>>
        ELSE IF Size(payload) < 65536
        THEN <<Write(Blob("len126", 1), FALSE, "return"),
               Write(Blob("ext16", 2), FALSE, "return")>>
        ELSE <<Write(Blob("len127", 1), FALSE, "return"),
               Write(Blob("ext64", 8), FALSE, "return")>>)
    \o <<Write(payload, TRUE, "ignore")>>

sendHixie(payload) ==
    <<Write(Blob("hixie00", 1), FALSE, "return"),
      Write(payload, FALSE, "return"),
      Write(Blob("hixieFF", 1), TRUE, "ignore")>>

\* send(const char*) past the thread check: a text message of messageLength bytes.
sendChecked(s1, messageLength) ==
    IF s1.env.caught \/ s1.conn.shutdown THEN s1
    ELSE IF s1.conn.state = "HANDLING_HIXIE_WEBSOCKET"
    THEN run(s1, sendHixie(Blob("text", messageLength)))
    ELSE run(s1, sendHybi("OPCODE_TEXT", Blob("text", messageLength)))

send(s, messageLength) == sendChecked(checkThread(s), messageLength)

\* send(const uint8_t*, size_t) past the thread check.
sendBinaryChecked(s1, length) ==
    IF s1.env.caught \/ s1.conn.shutdown THEN s1
    ELSE IF s1.conn.state = "HANDLING_HIXIE_WEBSOCKET" THEN s1
    ELSE run(s1, sendHybi("OPCODE_BINARY", Blob("binary", length)))

sendBinary(s, length) == sendBinaryChecked(checkThread(s), length)

credentials(s) == checkThread(s)

hasHeader(s) == touch(s)

getHeader(s) == touch(s)

\* --------------------------------------------------- response serialisation
\* Line i of a response head of n lines; bufferLine's callers ignore its result.
bufferLine(kind, n, i) ==
    Write(<<Run(kind, n * LineLen, (i - 1) * LineLen, i * LineLen)>>, FALSE, "ignore")

bufferLines(kind, n) == [i \in 1..n |-> bufferLine(kind, n, i)]

\* bufferResponseAndCommonHeaders: the status line and three common headers,
\* the first four lines of every head.
bufferResponseAndCommonHeaders(kind, n) == SubSeq(bufferLines(kind, n), 1, 4)

\* sendError: the common head of the error code, Content-Length, Connection:
\* close and the blank line (7 lines), then the document carrying the body
\* text as one line; flush; close-when-empty.  The head's bytes are named by
\* the code and the document's by the body text.
sendError(errorCode, body, bodyLen) ==
    bufferResponseAndCommonHeaders(errorCode, 7)
    \o SubSeq(bufferLines(errorCode, 7), 5, 7)
    \o <<Write(Blob(body, bodyLen + ErrorDocOverhead), FALSE, "ignore"),
         Flush("return"),
         Call("closeWhenEmpty")>>

sendUnsupportedError(reason) == sendError("NotImplemented", reason, LineLen)

sendBadRequest(reason) == sendError("BadRequest", reason, LineLen)

sendISE(error) == sendError("InternalServerError", error, LineLen)

sendData(size) ==
    bufferResponseAndCommonHeaders("dataHead", 8)
    \o SubSeq(bufferLines("dataHead", 8), 5, 8)
    \o <<Write(Blob("embedded", size), TRUE, "return")>>

\* req.embedded is the length of the embedded content found for the URI, -1
\* when there is none; req.livestats says the URI is /_livestats.js.
send404(req) ==
    IF req.embedded >= 0 THEN sendData(req.embedded)
    ELSE IF req.livestats THEN sendData(LineLen)
    ELSE sendError("NotFound", "Unable to find resource", LineLen)

\* The head of a file response without a Range header: the common head and
\* Content-Length (processRangesForStaticData), then 8 lines, 5 for a
\* cacheable path.
fileHead(req) == bufferLines("fileHead", IF req.cacheable THEN 10 ELSE 13)

\* sendStaticData for a request without a Range header: 404 when the file
\* cannot be opened, else the head, a flush, and the copy loop, which runs as
\* the StaticChunk steps.
sendStaticData(req) ==
    IF req.file < 0 THEN send404(req)
    ELSE fileHead(req)
         \o <<Flush("return")>>
         \o (IF req.file = 0 THEN <<>> ELSE <<Assign("copy", req.file)>>)

\* The head of a handler's response says Connection: keep-alive or close.
responseHead(req) == IF req.resp.keepAlive THEN "responseHead" ELSE "responseHeadClose"

sendResponse(req) ==
    IF req.handle = "unhandled" THEN sendStaticData(req)
    ELSE IF req.resp.code = "NotFound" THEN send404(req)
    ELSE IF req.resp.code # "Ok"
    THEN sendError(req.resp.code, "payload", req.resp.payload)
    ELSE bufferResponseAndCommonHeaders(responseHead(req), 12)
         \o SubSeq(bufferLines(responseHead(req), 12), 5, 12)
         \o <<Write(Blob("payload", req.resp.payload), TRUE, "return")>>
         \o (IF ~req.resp.keepAlive THEN <<Call("closeWhenEmpty")>> ELSE <<>>)

\* atoi(_request->getHeader("Sec-WebSocket-Version").c_str()); the header's
\* text is empty when the request has none.
webSocketVersion(req) == atoi(req.versionHeader)

handleHybiHandshake(req) ==
    IF webSocketVersion(req) # 8 /\ webSocketVersion(req) # 13
    THEN sendBadRequest("Invalid websocket version")
    ELSE bufferResponseAndCommonHeaders("hybiHead", 8)
         \o SubSeq(bufferLines("hybiHead", 8), 5, 8)
         \o <<Flush("ignore"),
              Call("onConnect"),
              Assign("_state", "HANDLING_HYBI_WEBSOCKET")>>

\* handlePageRequest without the catch-all clause: an exception that is not a
\* std::exception leaves handlePageRequest.
afterHandle_noCatchAll(req) ==
    IF req.handle = "throws" THEN sendISE("what()")
    ELSE IF req.handle = "throwsOther" THEN <<Assign("propagate", TRUE)>>
    ELSE IF req.handle = "null"
    THEN IF req.verb = "WebSocket"
         THEN <<Assign("_webSocketHandler", req.wsHandler)>>
              \o (IF req.wsHandler = NoHandler THEN send404(req)
                  ELSE <<Assign("webSocketVersion", req.versionHeader)>>
                       \o (IF webSocketVersion(req) = 0
                           THEN <<Assign("_state", "READING_WEBSOCKET_KEY3")>>
                           ELSE handleHybiHandshake(req)))
         ELSE sendStaticData(req)
    ELSE sendResponse(req)

\* What follows _server->handle(*_request): req.handle is its outcome, a
\* response, unhandled, null, or an exception (a std::exception with its
\* what(), or anything else).
afterHandle(req) ==
    IF req.handle = "throws" THEN sendISE("what()")
    ELSE IF req.handle = "throwsOther" THEN sendISE("(unknown)")
    ELSE IF req.handle = "null"
    THEN IF req.verb = "WebSocket"
         THEN <<Assign("_webSocketHandler", req.wsHandler)>>
              \o (IF req.wsHandler = NoHandler THEN send404(req)
                  ELSE <<Assign("webSocketVersion", req.versionHeader)>>
                       \o (IF webSocketVersion(req) = 0
                           THEN <<Assign("_state", "READING_WEBSOCKET_KEY3")>>
                           ELSE handleHybiHandshake(req)))
         ELSE sendStaticData(req)
    ELSE sendResponse(req)

handlePageRequest(req) == <<Assign("handle", req)>> \o afterHandle(req)

\* processHeaders on a complete header block, given as what parsing finds in
\* it.  r is the request with its verb as the PageRequest holds it.
processRequest(req, r) ==
    IF r.verb = "Get" /\ req.embedded >= 0 THEN sendData(req.embedded)
    ELSE <<Assign("_request", r)>>
         \o (IF req.contentLength > MaxBufferSize
             THEN sendBadRequest("Content length too long")
             ELSE IF req.contentLength = 0 THEN handlePageRequest(r)
             ELSE <<Assign("_state", "BUFFERING_POST_DATA")>>)

processHeaders(req) ==
    IF req.syntax # "ok" THEN sendBadRequest("Malformed header")
    ELSE <<Assign("_hixieExtraHeaders", req.extraLines)>>
         \o (IF req.connectionUpgrade /\ req.webSocketUpgrade
             THEN IF req.verb # "Get" THEN sendBadRequest("Non-GET WebSocket request")
                  ELSE <<Assign("_webSocketHandler", req.wsHandler)>>
                       \o (IF req.wsHandler = NoHandler THEN send404(req)
                           ELSE processRequest(req, [req EXCEPT !.verb = "WebSocket"]))
             ELSE processRequest(req, req))

\* The return of processHeaders or handlePageRequest to its caller: where a
\* WebSocket request's version test has left the connection.
dispatchReturned(t) ==
    IF t.obs.versionSeen /\ t.obs.versionState = "none"
    THEN [t EXCEPT !.obs.versionState = t.conn.state,
                   !.obs.versionEmitted = t.obs.emitted]
    ELSE t

\* The return to handleBufferingPostData: a failed request closes; a running
\* file copy (xfer) defers that to the end of the copy.
afterRequest(a) ==
    IF a.xfer.active THEN a
    ELSE IF ~a.ret THEN closeInternal(a)
    ELSE a

\* handleWebSocketKey3 with the 8 key bytes buffered.
webSocketKey3Response(extraLines) ==
    bufferResponseAndCommonHeaders("hixieHead", 6)
    \o SubSeq(bufferLines("hixieHead", 6), 5, 6)
    \o <<Write(Blob("hixieExtraHeaders", extraLines * LineLen), FALSE, "ignore"),
         Write(Blob("blankLine", 2), FALSE, "ignore"),
         Write(Blob("digest", 16), TRUE, "ignore"),
         Assign("_state", "HANDLING_HIXIE_WEBSOCKET"),
         Assign("erase", 8),
         Call("onConnect")>>

handleWebSocketKey3(s) ==
    IF InSize(s.conn.inBuf) < 8 THEN s
    ELSE run(s, webSocketKey3Response(s.conn.hixieExtraHeaders))

\* ------------------------------------------------------- event-loop entries
\* PageRequest::consumeContent: the buffered bytes the body still lacks go
\* from _inBuf to the request's body; true when the body is complete.
consumeContent(s) ==
    With(Min(s.conn.pending.contentLength - s.conn.body, InSize(s.conn.inBuf)), LAMBDA k :
        [s EXCEPT !.conn.body = @ + k,
                  !.obs.consumed = @ + k,
                  !.conn.inBuf = DropBytes(@, k),
                  !.ret = (s.conn.body + k = s.conn.pending.contentLength)])

\* handleBufferingPostData that dispatches on the first body bytes.
postDataConsumed_noWait(s1) ==
    afterRequest(dispatchReturned(run([s1 EXCEPT !.conn.state = "READING_HEADERS"],
                                      handlePageRequest(s1.conn.pending))))

postDataConsumed(s1) ==
    IF ~s1.ret THEN [s1 EXCEPT !.ret = TRUE]
    ELSE afterRequest(dispatchReturned(run([s1 EXCEPT !.conn.state = "READING_HEADERS"],
                                           handlePageRequest(s1.conn.pending))))

handleBufferingPostData(s) == postDataConsumed(consumeContent(s))

\* handleWebSocketTextMessage / handleWebSocketBinaryMessage: onData with a
\* message of n bytes.
\* The handler calls close() on the connection from inside its callback
\* (env.closes, once).
handlerCloses(s) ==
    IF s.env.closes
    THEN [close([s EXCEPT !.env.api = TRUE]) EXCEPT !.env.api = s.env.api,
                                                    !.env.closes = FALSE]
    ELSE s

onData(s, n) ==
    IF s.conn.webSocketHandler = NoHandler THEN s
    ELSE handlerCloses([s EXCEPT !.obs.onData = @ + 1,
                                 !.obs.messages = Append(@, n),
                                 !.obs.lateCall = @ \/ closed(s),
                                 !.obs.afterError = @ \/ s.obs.broken,
                                 !.obs.maxDelivered = IF n > @ THEN n ELSE @])

\* A protocol error or a CLOSE frame: closeInternal, and the handler returns.
protocolError_noClose(s) == [s EXCEPT !.obs.broken = TRUE]

protocolError(s) == closeInternal([s EXCEPT !.obs.broken = TRUE])

\* The payload bytes a piece of a Hixie message holds.
payloadBytes(p) ==
    CASE p.t = "frame" -> p.n - 2
      [] p.t \in {"frameStart", "frameEnd"} -> p.n - 1
      [] OTHER -> p.n

\* strlen of the message handed to handleWebSocketTextMessage as a C string:
\* the payload up to its first 0x00 byte, the 0xff having been overwritten
\* with 0.  A piece that starts a frame begins with 0x00; behind the first
\* piece of a message that byte is payload.
RECURSIVE strlenFrom(_, _)
strlenFrom(message, first) ==
    IF message = <<>> THEN 0
    ELSE IF ~first /\ Head(message).t \in {"frame", "frameStart"} THEN 0
    ELSE IF Head(message).nul >= 0 THEN Head(message).nul
    ELSE payloadBytes(Head(message)) + strlenFrom(Tail(message), FALSE)

strlen(message) == strlenFrom(message, TRUE)

\* The end of handleHixieWebSocket and handleHybiWebSocket: what was decoded
\* is erased, and more than MaxWebsocketMessageSize bytes left over close.
messagesDecoded(s, rest) ==
    With([s EXCEPT !.conn.inBuf = rest], LAMBDA s1 :
        IF InSize(rest) > MaxWebsocketMessageSize THEN closeInternal(s1) ELSE s1)

\* The position in buf of the first 0xff after the byte that starts a
\* message at buf[1]; 0 when there is none.
endOfMessage(buf) ==
    IF \E j \in 1..Len(buf) : buf[j].t \in {"frame", "frameEnd"}
    THEN CHOOSE j \in 1..Len(buf) :
             /\ buf[j].t \in {"frame", "frameEnd"}
             /\ \A i \in 1..(j - 1) : buf[i].t \notin {"frame", "frameEnd"}
    ELSE 0

\* handleHixieWebSocket's loop from messageStart, rest being the bytes from
\* there on: a message starts with a 0 byte and runs to the first 0xff.
RECURSIVE hixieMessages(_, _)
hixieMessages(s, rest) ==
    IF rest = <<>> THEN messagesDecoded(s, rest)
    ELSE IF Head(rest).t \notin {"frame", "frameStart"} THEN protocolError(s)
    ELSE IF endOfMessage(rest) = 0 THEN messagesDecoded(s, rest)
    ELSE hixieMessages(onData(s, strlen(SubSeq(rest, 1, endOfMessage(rest)))),
                       SubSeq(rest, endOfMessage(rest) + 1, Len(rest)))

handleHixieWebSocket(s) ==
    IF s.conn.inBuf = <<>> THEN s
    ELSE hixieMessages([s EXCEPT !.obs.hixieInput = s.conn.inBuf], s.conn.inBuf)

\* The call of sendHybi for a PING of len payload bytes has returned: a
\* PONG was written when write() took the 2 header bytes and the payload.
\* &decodedMessage[0] on an empty payload is undefined: the build either
\* passes a pointer that is never read, or aborts (env.ub).
ponged(s, t, len) ==
    [t EXCEPT !.halt = FALSE,
              !.obs.pings = @ + 1,
              !.obs.pongs = IF Size(t.obs.accepted) = Size(s.obs.accepted) + 2 + len
                            THEN @ + 1 ELSE @]

\* handleHybiWebSocket's loop over decodeNextMessage: rest holds the frames
\* not yet decoded, each with the decoder's result for it; bytes that do not
\* complete a frame give NoMessage.
RECURSIVE hybiMessages(_, _)
hybiMessages(s, rest) ==
    IF rest = <<>> \/ Head(rest).t # "hybi" THEN messagesDecoded(s, rest)
    ELSE CASE Head(rest).msg \in {"Error", "Close", "Unknown"} -> protocolError(s)
           [] Head(rest).msg = "Ping" ->
                  IF Head(rest).len = 0 /\ s.env.ub = "abort"
                  THEN [s EXCEPT !.obs.pings = @ + 1, !.obs.aborted = TRUE]
                  ELSE hybiMessages(
                           ponged(s, run(s, sendHybi("OPCODE_PONG",
                                                     Blob("ping", Head(rest).len))),
                                  Head(rest).len),
                           Tail(rest))
           [] OTHER -> hybiMessages(onData(s, Head(rest).len), Tail(rest))

handleHybiWebSocket(s) ==
    IF s.conn.inBuf = <<>> THEN s ELSE hybiMessages(s, s.conn.inBuf)

\* The header block at the front of buf: up to and including the first
\* CRLFCRLF.
hasTerminator(buf) == \E i \in 1..Len(buf) : buf[i].t = "headers"

terminator(buf) ==
    CHOOSE i \in 1..Len(buf) :
        buf[i].t = "headers" /\ \A j \in 1..(i - 1) : buf[j].t # "headers"

eraseHeaders(s) ==
    [s EXCEPT !.conn.inBuf = SubSeq(@, terminator(@) + 1, Len(@))]

RECURSIVE handleNewData(_)

\* handleHeaders after processHeaders: false closes; true erases the block
\* and dispatches what is left; a file copy under way (xfer) does so at its
\* end.
headersProcessed(t) ==
    IF t.xfer.active THEN [t EXCEPT !.xfer.resume = TRUE]
    ELSE IF ~t.ret THEN closeInternal(t)
    ELSE handleNewData(eraseHeaders(t))

handleHeaders(s) ==
    IF InSize(s.conn.inBuf) < 4 THEN s
    ELSE IF hasTerminator(s.conn.inBuf)
    THEN headersProcessed(dispatchReturned(
             run(s, processHeaders(s.conn.inBuf[terminator(s.conn.inBuf)].req))))
    ELSE IF InSize(s.conn.inBuf) > MaxHeadersSize
    THEN run(s, sendUnsupportedError("Headers too big"))
    ELSE s

handleNewData(s) ==
    CASE s.conn.state = "READING_HEADERS" -> handleHeaders(s)
      [] s.conn.state = "READING_WEBSOCKET_KEY3" -> handleWebSocketKey3(s)
      [] s.conn.state = "HANDLING_HIXIE_WEBSOCKET" -> handleHixieWebSocket(s)
      [] s.conn.state = "HANDLING_HYBI_WEBSOCKET" -> handleHybiWebSocket(s)
      [] s.conn.state = "BUFFERING_POST_DATA" -> handleBufferingPostData(s)
      [] OTHER -> s

\* What one ::read brings: an error (-1), the end of the stream (0), or up to
\* ReadWriteBufferSize bytes (chunk), which are appended to _inBuf.
handleDataReadyForRead(s, rd) ==
    IF closed(s) THEN s
    ELSE IF rd.result = -1 THEN s
    ELSE IF rd.result = 0 THEN closeInternal(s)
    ELSE handleNewData([s EXCEPT !.conn.inBuf = @ \o rd.chunk])

handleDataReadyForWrite(s) ==
    IF closed(s) THEN s ELSE flushCall(s)

\* One pass of sendStaticData's copy loop: read up to 16 KiB of the file and
\* write it with flush; the end of the copy returns to the caller.
chunkLen(s) ==
    IF s.xfer.bytesLeft < ReadWriteBufferSize THEN s.xfer.bytesLeft ELSE ReadWriteBufferSize

chunkWritten(a) ==
    IF ~a.ret THEN closeInternal([a EXCEPT !.xfer = NoXfer])
    ELSE IF a.xfer.bytesLeft = chunkLen(a)
    THEN IF a.xfer.resume THEN handleNewData(eraseHeaders([a EXCEPT !.xfer = NoXfer]))
         ELSE [a EXCEPT !.xfer = NoXfer]
    ELSE [a EXCEPT !.xfer.bytesLeft = @ - chunkLen(a), !.xfer.off = @ + chunkLen(a)]

staticChunk(s, readOk) ==
    IF ~readOk THEN closeInternal([s EXCEPT !.xfer = NoXfer])
    ELSE chunkWritten(
             writeCall(s, <<Run("file", s.xfer.size, s.xfer.off, s.xfer.off + chunkLen(s))>>,
                       TRUE))

destructorChecked(a) == IF a.env.caught THEN a ELSE finaliseCall(a)

destructor(s) == destructorChecked(checkThread(s))

\* A ::read of n > 0 bytes.
Data(chunk) == [result |-> 1, chunk |-> chunk]

\* ----------------------------------------------------------------- actions
Running == ~destroyed /\ ~xfer.active /\ ~obs.aborted
\* What the next ::send may answer.
SendChoices == IF net.partials < MaxPartial THEN SendOutcomes ELSE WholeOutcomes
\* Whether a change of the write-event subscription may succeed, or fail.
SubChoices == IF srv.subFailures < MaxSubFailures THEN BOOLEAN ELSE {TRUE}
UserHasConnection == \E h \in Handlers : cb.onConnect[h] > 0

ReadRequest ==
    /\ Running /\ nOps < MaxOps
    /\ conn.state = "READING_HEADERS" /\ ~closed([conn |-> conn])
    /\ \E req \in Requests, r \in SendChoices, ok \in SubChoices :
          Unpack(handleDataReadyForRead(Pack(LoopThread, <<r>>, ok), Data(<<Headers(req)>>)))
    /\ nOps' = nOps + 1
    /\ UNCHANGED destroyed

ReadBody ==
    /\ Running /\ nOps < MaxOps
    /\ conn.state = "BUFFERING_POST_DATA" /\ ~closed([conn |-> conn])
    /\ \E r \in SendChoices, ok \in SubChoices :
          Unpack(handleDataReadyForRead(
                     Pack(LoopThread, <<r>>, ok),
                     Data(<<Piece("body", conn.pending.contentLength - conn.body)>>)))
    /\ nOps' = nOps + 1
    /\ UNCHANGED destroyed

ReadKey3 ==
    /\ Running /\ nOps < MaxOps
    /\ conn.state = "READING_WEBSOCKET_KEY3" /\ ~closed([conn |-> conn])
    /\ \E r \in SendChoices, ok \in SubChoices :
          Unpack(handleDataReadyForRead(Pack(LoopThread, <<r>>, ok),
                                        Data(<<Piece("key3", 8 - InSize(conn.inBuf))>>)))
    /\ nOps' = nOps + 1
    /\ UNCHANGED destroyed

ReadHybi ==
    /\ Running /\ nOps < MaxOps
    /\ conn.state = "HANDLING_HYBI_WEBSOCKET" /\ ~closed([conn |-> conn])
    /\ \E res \in {"Close", "Ping", "TextMessage"},
          r \in SendChoices, ok \in SubChoices :
          Unpack(handleDataReadyForRead(Pack(LoopThread, <<r>>, ok),
                                        Data(<<HybiFrame(res, 5)>>)))
    /\ nOps' = nOps + 1
    /\ UNCHANGED destroyed

\* ::read returns 0 (the peer closed) or -1.
ReadEnd ==
    /\ Running
    /\ \E res \in {0, -1} :
          Unpack(handleDataReadyForRead(Pack(LoopThread, <<>>, TRUE),
                                        [result |-> res, chunk |-> <<>>]))
    /\ UNCHANGED <<destroyed, nOps>>

StaticChunk ==
    /\ ~destroyed /\ xfer.active
    /\ \E readOk \in BOOLEAN, r1 \in SendChoices, r2 \in SendChoices, ok \in SubChoices :
          Unpack(staticChunk(Pack(LoopThread, <<r1, r2>>, ok), readOk))
    /\ UNCHANGED <<destroyed, nOps>>

DataReadyForWrite ==
    /\ Running
    /\ \E r \in SendChoices, ok \in SubChoices :
          Unpack(handleDataReadyForWrite(Pack(LoopThread, <<r>>, ok)))
    /\ UNCHANGED <<destroyed, nOps>>

Send ==
    /\ Running /\ UserHasConnection /\ nOps < MaxOps
    /\ \E n \in MessageLens, r \in SendChoices, ok \in SubChoices :
          Unpack(send(PackApi(LoopThread, <<r>>, ok), n))
    /\ nOps' = nOps + 1
    /\ UNCHANGED destroyed

SendBinary ==
    /\ Running /\ UserHasConnection /\ nOps < MaxOps
    /\ \E n \in BinaryLens, r \in SendChoices, ok \in SubChoices :
          Unpack(sendBinary(PackApi(LoopThread, <<r>>, ok), n))
    /\ nOps' = nOps + 1
    /\ UNCHANGED destroyed

Close ==
    /\ Running /\ UserHasConnection
    /\ Unpack(close(PackApi(LoopThread, <<>>, TRUE)))
    /\ UNCHANGED <<destroyed, nOps>>

CloseWhenEmpty ==
    /\ Running /\ UserHasConnection
    /\ Unpack(closeWhenEmpty(PackApi(LoopThread, <<>>, TRUE)))
    /\ UNCHANGED <<destroyed, nOps>>

Finalise ==
    /\ Running
    /\ Unpack(finaliseCall(Pack(LoopThread, <<>>, TRUE)))
    /\ UNCHANGED <<destroyed, nOps>>

Destructor ==
    /\ Running
    /\ Unpack(destructor(Pack(LoopThread, <<>>, TRUE)))
    /\ destroyed' = TRUE
    /\ UNCHANGED nOps

Next ==
    \/ ReadRequest
    \/ ReadBody
    \/ ReadKey3
    \/ ReadHybi
    \/ ReadEnd
    \/ StaticChunk
    \/ DataReadyForWrite
    \/ Send
    \/ SendBinary
    \/ Close
    \/ CloseWhenEmpty
    \/ Finalise
    \/ Destructor

Spec == Init /\ [][Next]_vars

\* A call of the public interface made from a thread other than the loop's,
\* taking effect between two events of the loop.
ForeignCall ==
    /\ Running /\ UserHasConnection
    /\ \E op \in {"send", "sendBinary", "close", "closeWhenEmpty",
                  "credentials", "getHeader", "hasHeader"} :
          LET s == PackApi(ForeignThread, <<>>, TRUE)
          IN Unpack(CASE op = "send" -> send(s, 5)
                      [] op = "sendBinary" -> sendBinary(s, 5)
                      [] op = "close" -> close(s)
                      [] op = "closeWhenEmpty" -> closeWhenEmpty(s)
                      [] op = "credentials" -> credentials(s)
                      [] op = "getHeader" -> getHeader(s)
                      [] OTHER -> hasHeader(s))
    /\ UNCHANGED <<destroyed, nOps>>

NextThreads == Next \/ ForeignCall

SpecThreads == Init /\ [][NextThreads]_vars

\* ------------------------------------------------------------- input runs
\* Runs in which the peer's bytes arrive in reads of any cut: a read brings
\* up to ReadWriteBufferSize bytes, which may hold less or more than the unit
\* the state waits for.
MaxUnits == 2
PostLen == 10

\* A keep-alive request with a Host header, which adds the Origin and
\* Location lines to _hixieExtraHeaders.
Page == [Response("Ok", 5, TRUE) EXCEPT !.extraLines = 2]
Post == [Page EXCEPT !.verb = "Post", !.contentLength = PostLen]
Hixie == [Upgrade EXCEPT !.wsHandler = "h1"]
Hybi == [Upgrade EXCEPT !.wsHandler = "h1", !.versionHeader = <<"1", "3">>]

\* The texts of Sec-WebSocket-Version: absent, 0, 8, 13, 7, x, 8x.
VersionHeaders ==
    {<<>>, <<"0">>, <<"8">>, <<"1", "3">>, <<"7">>, <<"x">>, <<"8", "x">>}

InputRequests ==
    {Page, Post, Response("Ok", 5, FALSE), BaseRequest,
     [BaseRequest EXCEPT !.syntax = "malformed"],
     [BaseRequest EXCEPT !.embedded = 5, !.contentLength = PostLen],
     [Post EXCEPT !.contentLength = TwentyMiB],
     [BaseRequest EXCEPT !.handle = "throws"],
     [BaseRequest EXCEPT !.handle = "throwsOther"],
     [Post EXCEPT !.handle = "throws"],
     [Post EXCEPT !.handle = "throwsOther"]}
    \cup {[Upgrade EXCEPT !.wsHandler = "h1", !.versionHeader = v] : v \in VersionHeaders}

\* What a read may bring in each state.
Chunks ==
    CASE conn.state = "READING_HEADERS" ->
             {<<Piece("partialHeaders", ReadWriteBufferSize)>>}
             \cup {<<Headers(req)>> : req \in InputRequests}
             \cup {<<Headers(Post), Piece("body", n)>> : n \in {4, PostLen}}
             \cup {<<Headers([Post EXCEPT !.handle = "throws"]), Piece("body", PostLen)>>,
                   <<Headers(Page), Headers(Page)>>,
                   <<Headers(BaseRequest), Headers(Page)>>,
                   <<Headers(Hixie), Piece("key3", 8)>>,
                   <<Headers(Hixie), Piece("key3", 8), Piece("frame", 7)>>,
                   <<Headers(Hybi), HybiFrame("TextMessage", 5)>>}
      [] conn.state = "BUFFERING_POST_DATA" ->
             {<<Piece("body", n)>> : n \in {3, conn.pending.contentLength - conn.body}}
             \cup {<<Piece("body", conn.pending.contentLength - conn.body), Headers(Page)>>}
      [] conn.state = "READING_WEBSOCKET_KEY3" ->
             {<<Piece("key3", 4)>>, <<Piece("key3", 8 - InSize(conn.inBuf))>>,
              <<Piece("key3", 8 - InSize(conn.inBuf)), Piece("frame", 7)>>}
      [] conn.state = "HANDLING_HIXIE_WEBSOCKET" ->
             {<<Piece("frame", 7)>>, <<Piece("frame", 7), Piece("frame", 9)>>,
              <<NulFrame(7, 2)>>,
              <<Piece("frame", 7), Piece("notAFrame", 1), Piece("frame", 9)>>,
              <<Piece("frameStart", ReadWriteBufferSize)>>,
              <<Piece("frameMiddle", ReadWriteBufferSize)>>,
              <<Piece("frameEnd", 5001)>>,
              <<Piece("notAFrame", 1)>>}
      [] conn.state = "HANDLING_HYBI_WEBSOCKET" ->
             {<<HybiFrame(m, 5)>> : m \in {"TextMessage", "BinaryMessage", "Ping", "Close"}}
             \cup {<<HybiFrame("Ping", 5), HybiFrame("TextMessage", 5)>>,
                   <<HybiFrame("Ping", 0)>>,
                   <<HybiFrame("TextMessage", 5), HybiFrame("Ping", 5)>>,
                   <<HybiFrame("TextMessage", 5), HybiFrame("BinaryMessage", 6)>>,
                   <<HybiFrame("TextMessage", 5), HybiFrame("Close", 0),
                     HybiFrame("TextMessage", 6)>>,
                   <<Piece("hybiPart", ReadWriteBufferSize)>>}
      [] OTHER -> {}

\* What ::send answers to the calls of one event: the second call meets the
\* socket as the first left it.
Sends(r) == [i \in 1..4 |-> IF i > 1 /\ r = "half" THEN "again" ELSE r]

\* What the handler and the build do during a read on a WebSocket
\* connection: the handler may call close() from onData, and an empty PING
\* may abort the process.
HandlerChoices ==
    IF conn.state \in {"HANDLING_HIXIE_WEBSOCKET", "HANDLING_HYBI_WEBSOCKET"}
    THEN {[closes |-> FALSE, ub |-> "data"], [closes |-> TRUE, ub |-> "data"],
          [closes |-> FALSE, ub |-> "abort"]}
    ELSE {[closes |-> FALSE, ub |-> "data"]}

\* A read that completes no unit of input: the explored runs hold at most
\* MaxUnits reads of the other kind, and any number of these while the
\* buffer is within the header limit; an unterminated header region is the
\* connection's first input.
Partial(chunk) ==
    Len(chunk) = 1
    /\ chunk[1].t \in {"partialHeaders", "frameStart", "frameMiddle", "hybiPart"}

Receive ==
    /\ Running
    /\ ~closed([conn |-> conn])
    /\ \E chunk \in Chunks, r \in SendChoices, ok \in SubChoices, h \in HandlerChoices :
          /\ InSize(chunk) <= ReadWriteBufferSize
          /\ IF Partial(chunk)
             THEN /\ InSize(conn.inBuf) <= MaxHeadersSize
                  /\ chunk[1].t = "partialHeaders" => nOps = 0
                  /\ nOps' = nOps
             ELSE /\ nOps < MaxUnits
                  /\ nOps' = nOps + 1
          /\ Unpack(handleDataReadyForRead(
                        [Pack(LoopThread, Sends(r), ok) EXCEPT !.env.closes = h.closes,
                                                               !.env.ub = h.ub],
                        Data(chunk)))
    /\ UNCHANGED destroyed

NextInput ==
    \/ Receive
    \/ ReadEnd
    \/ DataReadyForWrite

SpecInput == Init /\ [][NextInput]_vars

\* ----------------------------------------------------------- range engine
\* std::numeric_limits<long>::max(), held as the largest integer of the
\* model: it is only ever compared with a file size.
LongMax == 2147483647

NoRange == [ok |-> FALSE, start |-> 0, end |-> 0]

parseRange(rangeStr) ==
    LET minusPos == find(rangeStr, "-")
    IN IF minusPos = -1 THEN NoRange
       ELSE IF minusPos = 0
       THEN [ok |-> TRUE, start |-> atoi(rangeStr), end |-> LongMax]
       ELSE [ok |-> TRUE,
             start |-> atoi(substr(rangeStr, 0, minusPos)),
             end |-> IF minusPos = Len(rangeStr) - 1 THEN LongMax
                     ELSE atoi(substrFrom(rangeStr, minusPos + 1))]

expectedPrefix == <<"b", "y", "t", "e", "s", "=">>

\* parseRanges: ok is the bool result, ranges the list filled in.
parseRanges(range) ==
    IF Len(range) < Len(expectedPrefix)
       \/ substr(range, 0, Len(expectedPrefix)) # expectedPrefix
    THEN [ok |-> FALSE, ranges |-> <<>>]
    ELSE LET rangesText == split(substrFrom(range, Len(expectedPrefix)), ",")
             parsed == [i \in 1..Len(rangesText) |-> parseRange(rangesText[i])]
         IN IF \E i \in 1..Len(parsed) : ~parsed[i].ok
            THEN [ok |-> FALSE, ranges |-> <<>>]
            ELSE [ok |-> parsed # <<>>,
                  ranges |-> [i \in 1..Len(parsed) |->
                                 [start |-> parsed[i].start, end |-> parsed[i].end]]]

\* Range::length(): end - start + 1 as a size_t.  A negative difference wraps
\* to a value near 2^64 (wrapped), whose low 32 bits are those of v.
length(r) == [v |-> r.end - r.start + 1, wrapped |-> r.end - r.start + 1 < 0]

\* One element of the request's list against the file size.
actualRange(r, fileSize) ==
    LET s1 == IF r.start < 0 THEN r.start + fileSize ELSE r.start
        s2 == IF s1 >= fileSize THEN fileSize - 1 ELSE s1
    IN [start |-> s2, end |-> IF r.end >= fileSize THEN fileSize - 1 ELSE r.end]

RECURSIVE sumLengths(_)
sumLengths(rs) == IF rs = <<>> THEN 0 ELSE length(Head(rs)).v + sumLengths(Tail(rs))

\* processRangesForStaticData: the status line, the Content-Length (an int
\* accumulating the lengths) and the ranges to send.
processRangesForStaticData(origRanges, fileSize) ==
    IF origRanges = <<>>
    THEN [status |-> 200, contentLength |-> fileSize,
          ranges |-> <<[start |-> 0, end |-> fileSize - 1]>>]
    ELSE LET sendRanges == [i \in 1..Len(origRanges) |->
                               actualRange(origRanges[i], fileSize)]
         IN [status |-> 206, contentLength |-> sumLengths(sendRanges),
             ranges |-> sendRanges]

\* The copy of one range from a file of fileSize bytes to a connection that
\* takes every write: lseek fails on a negative offset, ::read returns 0 at
\* the end of the file.  n is the number of bytes written, ok whether the
\* loop went on to the next range.
copyRange(r, fileSize) ==
    IF r.start < 0 THEN [ok |-> FALSE, n |-> 0]
    ELSE LET avail == IF r.start >= fileSize THEN 0 ELSE fileSize - r.start
         IN IF length(r).wrapped \/ length(r).v > avail
            THEN [ok |-> FALSE, n |-> avail]
            ELSE [ok |-> TRUE, n |-> length(r).v]

\* Range headers seen: none, another unit, and lists of one or two elements.
RangeElements ==
    {<<"0", "-", "3">>, <<"6", "-", "9">>, <<"3", "-", "5", "0">>, <<"5", "-", "2">>,
     <<"2", "-">>, <<"1", "2", "-">>, <<"-", "4">>, <<"-", "0">>, <<"-", "1", "2">>,
     <<"7">>}

RangeHeaders ==
    {<<>>, <<"i", "t", "e", "m", "s", "=", "0", "-", "3">>}
    \cup {expectedPrefix \o e : e \in RangeElements}
    \cup {expectedPrefix \o e1 \o <<",">> \o e2 : e1 \in RangeElements, e2 \in RangeElements}

FileLengths == {4, 10}

InitRanges ==
    /\ conn = InitConn
    /\ net = [wire |-> <<>>, partials |-> 0, shutdownCalls |-> 0, closeCalls |-> 0]
    /\ srv = [subscribed |-> FALSE, lastSub |-> "none", subFailures |-> 0,
              removeCalls |-> 0]
    /\ cb = [onConnect |-> [h \in Handlers |-> 0],
             onDisconnect |-> [h \in Handlers |-> 0]]
    /\ obs = InitObs
    /\ xfer = NoXfer
    /\ destroyed = FALSE
    /\ nOps = 0
    /\ \E h \in RangeHeaders, n \in FileLengths :
          rng = [NoRanges EXCEPT !.phase = "opened", !.header = h, !.size = n]

\* sendStaticData up to the 400 for a bad Range header.
ParseRangeHeader ==
    /\ rng.phase = "opened"
    /\ rng' = IF rng.header # <<>> /\ ~parseRanges(rng.header).ok
              THEN [rng EXCEPT !.phase = "done", !.status = 400]
              ELSE [rng EXCEPT !.phase = "parsed",
                               !.parsed = IF rng.header = <<>> THEN <<>>
                                          ELSE parseRanges(rng.header).ranges]
    /\ UNCHANGED <<conn, net, srv, cb, obs, xfer, destroyed, nOps>>

ProcessRanges ==
    /\ rng.phase = "parsed"
    /\ \E p \in {processRangesForStaticData(rng.parsed, rng.size)} :
          rng' = [rng EXCEPT !.phase = "copying", !.status = p.status,
                             !.contentLength = p.contentLength, !.ranges = p.ranges]
    /\ UNCHANGED <<conn, net, srv, cb, obs, xfer, destroyed, nOps>>

\* One pass of the loop over the ranges.
CopyRange ==
    /\ rng.phase = "copying"
    /\ \E c \in {IF rng.next <= Len(rng.ranges)
                 THEN copyRange(rng.ranges[rng.next], rng.size)
                 ELSE [ok |-> FALSE, n |-> 0]} :
          rng' = IF rng.next > Len(rng.ranges) THEN [rng EXCEPT !.phase = "done"]
                 ELSE [rng EXCEPT !.written = @ + c.n,
                                  !.next = @ + 1,
                                  !.phase = IF c.ok THEN "copying" ELSE "done"]
    /\ UNCHANGED <<conn, net, srv, cb, obs, xfer, destroyed, nOps>>

NextRanges == ParseRangeHeader \/ ProcessRanges \/ CopyRange

SpecRanges == InitRanges /\ [][NextRanges]_vars

\* ------------------------------------------------------------------ claims
Open == conn.fd # -1 /\ ~conn.shutdown

\* C1: in every reachable state the size of the output buffer is at most
\* MaxBufferSize (16 MiB).
C1_OutBufWithinCap == Size(conn.outBuf) <= MaxBufferSize

\* C1 case: a write was refused at the cap while the buffer already held at
\* least half the cap, and the buffer is what it was.
C1_Witness ==
    obs.capWrite /\ Size(conn.outBuf) >= EightMiB /\ Size(conn.outBuf) < MaxBufferSize

\* C2: once _shutdown is set no operation transmits a byte: a safeSend call
\* entered after shutdown sends nothing, and no step taken from a shut-down
\* state changes bytesSent or what is on the wire.
C2_NoBytesAfterShutdown ==
    [][/\ ~obs'.sentAfterShutdown
       /\ conn.shutdown => (conn'.bytesSent = conn.bytesSent /\ net'.wire = net.wire
                            /\ conn'.shutdown)]_vars

\* C2 case: flush was called with bytes buffered on a shut-down connection and
\* safeSend refused them.
C2_Witness == obs.sendRefused /\ conn.shutdown /\ conn.outBuf # <<>>

\* C3: a bound WebSocket handler receives onDisconnect exactly once: the first
\* finalise calls it for the handler bound at that time, removes the
\* connection from the server once and closes the FD once; before it no
\* onDisconnect is delivered and nothing is closed; a later finalise calls
\* back, removes and closes nothing.
C3_DisconnectOnce ==
    /\ \A h \in Handlers : cb.onDisconnect[h] <= 1
    /\ obs.finalised =>
          /\ conn.fd = -1 /\ conn.webSocketHandler = NoHandler
          /\ net.closeCalls = 1 /\ srv.removeCalls = 1
          /\ \A h \in Handlers : cb.onDisconnect[h] = 1 <=> h = obs.boundAtFinalise
    /\ ~obs.finalised =>
          /\ \A h \in Handlers : cb.onDisconnect[h] = 0
          /\ net.closeCalls = 0 /\ srv.removeCalls = 0
    /\ ~obs.lateCallback

\* C3 case: the destructor ran finalise again on a connection finalised with a
\* handler bound.
C3_Witness ==
    /\ obs.lateFinalise /\ destroyed
    /\ obs.boundAtFinalise # NoHandler
    /\ cb.onDisconnect[obs.boundAtFinalise] = 1

\* C4: output is FIFO: the bytes transmitted followed by the output buffer
\* are the bytes accepted by write(), in call order.
C4_Fifo == Cat(net.wire, conn.outBuf) = obs.accepted

\* C4 case: a partial send split one block between the wire and the buffer.
C4_Witness ==
    /\ net.partials > 0 /\ net.wire # <<>> /\ conn.outBuf # <<>>
    /\ net.wire[Len(net.wire)].kind = conn.outBuf[1].kind
    /\ net.wire[Len(net.wire)].hi = conn.outBuf[1].lo
    /\ conn.outBuf[1].lo > 0

\* C5: a write whose unsent tail would take the buffer over the cap closes the
\* connection, fails and buffers none of the tail; a block of more than
\* 16 MiB handed to write() ends with the connection closed, and no byte of
\* any block past its first 16 MiB is ever transmitted.
C5_OverCapCloses ==
    /\ ~obs.capEffect
    /\ obs.capWrite => conn.shutdown
    /\ obs.overCap => (obs.capWrite /\ conn.shutdown)
    /\ \A i \in DOMAIN net.wire : net.wire[i].hi <= MaxBufferSize

\* C5 case: a handler's block of more than the cap was refused after earlier
\* output of the connection had been transmitted.
C5_Witness == obs.overCap /\ obs.capWrite /\ conn.shutdown /\ net.wire # <<>>

\* C6: write() called while closed or while a close-when-empty is pending
\* returns false and changes nothing (buffer, bytesSent, socket, subscription).
C6_BlockedWriteNoEffect == ~obs.blockedEffect

\* C6 case: a write was made on an open connection with a close-when-empty
\* pending.
C6_Witness == obs.blockedWrite /\ conn.closeOnEmpty /\ Open /\ conn.outBuf # <<>>

\* C7: an open connection never returns to the event loop with closeOnEmpty
\* set and an empty output buffer.
C7_CloseWhenEmptyFires ==
    ~xfer.active => ~(Open /\ conn.closeOnEmpty /\ conn.outBuf = <<>>)

\* C8: after a flush that reports success the connection is subscribed to
\* write events iff its buffer is non-empty, and no two subscribes or two
\* unsubscribes follow each other.
C8_SubscribedIffPending == ~obs.flushSubBad /\ ~obs.doubleSub

\* C9: a ::send failure other than EAGAIN sets hadSendError and closes;
\* EAGAIN is zero bytes sent, sets no flag and does not close.
C9_SendErrorFlag ==
    /\ obs.sendFailed => (conn.hadSendError /\ conn.shutdown)
    /\ ~obs.eagainEffect

\* C10: a call of the public interface from another thread is caught by the
\* thread check before any state of the connection is read or changed.
C10_ThreadChecked == ~obs.foreignTouch

\* The elements of the request's list, as written.
RangeTexts == split(substrFrom(rng.header, Len(expectedPrefix)), ",")

IsNumber(str) == str # <<>> /\ \A i \in 1..Len(str) : IsDigit(str[i])

\* The interval the normalisation table gives for an element of one of its
\* three forms (a-b, a-, -n), <<>> for any other text.
TableInterval(e, size) ==
    LET a == substr(e, 0, find(e, "-"))
        b == substrFrom(e, find(e, "-") + 1)
        last == size - 1
    IN IF find(e, "-") = -1 THEN <<>>
       ELSE IF IsNumber(a) /\ IsNumber(b)
       THEN <<[start |-> atoiDigits(a, 0),
               end |-> IF atoiDigits(b, 0) < last THEN atoiDigits(b, 0) ELSE last]>>
       ELSE IF IsNumber(a) /\ b = <<>>
       THEN <<[start |-> atoiDigits(a, 0), end |-> last]>>
       ELSE IF a = <<>> /\ IsNumber(b)
       THEN <<[start |-> size - atoiDigits(b, 0), end |-> last]>>
       ELSE <<>>

\* C15: for every accepted element of a Range list and every file size the
\* range to send is the one of the normalisation table (a-b: [a, min(b,
\* size-1)], a-: [a, size-1], -n: [size-n, size-1]), in the order of the list.
C15_RangeTable ==
    (rng.phase \in {"copying", "done"} /\ rng.status = 206) =>
        /\ Len(rng.ranges) = Len(RangeTexts)
        /\ \A i \in 1..Len(rng.ranges) :
              TableInterval(RangeTexts[i], rng.size) # <<>>
                  => <<rng.ranges[i]>> = TableInterval(RangeTexts[i], rng.size)

\* C16: the Content-Length of a static file response is the number of body
\* bytes then written: the file size with the one range [0, size-1] and
\* status 200 without a Range header, the sum of the lengths of the ranges
\* sent and status 206 with one.
C16_ContentLengthIsBody ==
    (rng.phase = "done" /\ rng.status # 400) =>
        /\ rng.contentLength = rng.written
        /\ rng.header = <<>> =>
              /\ rng.status = 200 /\ rng.contentLength = rng.size
              /\ rng.ranges = <<[start |-> 0, end |-> rng.size - 1]>>
        /\ rng.header # <<>> =>
              /\ rng.status = 206 /\ rng.contentLength = sumLengths(rng.ranges)


\* Bytes of a block of this kind were taken by write() at some time.
Accepted(kind) == \E i \in 1..Len(obs.accepted) : obs.accepted[i].kind = kind

\* C11: in READING_HEADERS, once the buffered input holds more than 64 KiB
\* and no CRLFCRLF, the 501 response has been emitted and the connection is
\* closed or scheduled for close.
C11_HeadersTooBig ==
    (conn.state = "READING_HEADERS" /\ ~hasTerminator(conn.inBuf)
         /\ InSize(conn.inBuf) > MaxHeadersSize)
    => (conn.fd = -1 \/ conn.shutdown
        \/ (Accepted("NotImplemented") /\ conn.closeOnEmpty))


\* C12: no message of more than 16 KiB of payload is delivered to onData,
\* however its bytes are cut into reads.
C12_NoLongMessage == obs.maxDelivered <= MaxWebsocketMessageSize

\* C18: when onConnect is called the connection is in the handling state of
\* the dialect: HANDLING_HIXIE_WEBSOCKET after the Key3 handshake,
\* HANDLING_HYBI_WEBSOCKET after the Hybi handshake.
C18_ConnectInHandlingState ==
    obs.connectState \in {"none", "HANDLING_HIXIE_WEBSOCKET", "HANDLING_HYBI_WEBSOCKET"}

\* The state can consume what is buffered: a whole header block, the 8 key
\* bytes, a Hixie message or a byte that starts none, a Hybi frame, body bytes.
Consumable ==
    CASE conn.state = "READING_HEADERS" -> hasTerminator(conn.inBuf)
      [] conn.state = "READING_WEBSOCKET_KEY3" -> InSize(conn.inBuf) >= 8
      [] conn.state = "HANDLING_HIXIE_WEBSOCKET" ->
             /\ conn.inBuf # <<>>
             /\ (Head(conn.inBuf).t \notin {"frame", "frameStart"}
                 \/ endOfMessage(conn.inBuf) # 0)
      [] conn.state = "HANDLING_HYBI_WEBSOCKET" ->
             conn.inBuf # <<>> /\ Head(conn.inBuf).t = "hybi"
      [] conn.state = "BUFFERING_POST_DATA" -> conn.inBuf # <<>>
      [] OTHER -> FALSE

\* C19: when a readability event ends on an open connection, no input is
\* left that the state can consume.
C19_InputConsumed == ~(Open /\ ~xfer.active /\ Consumable)


WebSocketStates ==
    {"READING_WEBSOCKET_KEY3", "HANDLING_HIXIE_WEBSOCKET", "HANDLING_HYBI_WEBSOCKET"}

\* C17: when the dispatch of a WebSocket request with a handler returns, a
\* Sec-WebSocket-Version absent or 0 has left the connection in
\* READING_WEBSOCKET_KEY3 with nothing emitted, 8 or 13 has emitted the 101
\* response and left it in HANDLING_HYBI_WEBSOCKET, and any other text has
\* emitted a 400 and left it in no WebSocket state.
C17_VersionDispatch ==
    obs.versionSeen =>
        IF obs.versionHeader \in {<<>>, <<"0">>}
        THEN obs.versionState = "READING_WEBSOCKET_KEY3" /\ obs.versionEmitted = {}
        ELSE IF obs.versionHeader \in {<<"8">>, <<"1", "3">>}
        THEN obs.versionState = "HANDLING_HYBI_WEBSOCKET" /\ "hybiHead" \in obs.versionEmitted
        ELSE obs.versionState \notin WebSocketStates /\ "BadRequest" \in obs.versionEmitted


\* The heads of the responses that end the connection: the error responses
\* and a handler's response that asked for Connection: close.
ClosingKinds ==
    {"BadRequest", "NotFound", "InternalServerError", "NotImplemented", "responseHeadClose"}

\* C14: once an error response or a non-keep-alive response has been
\* emitted, the connection is closed, or close-when-empty is scheduled and
\* output is still pending; it is not open with the response drained.
C14_ClosesAfterResponse ==
    ((\E k \in ClosingKinds : Accepted(k)) /\ ~xfer.active)
    => (conn.fd = -1 \/ conn.shutdown \/ (conn.closeOnEmpty /\ conn.outBuf # <<>>))


\* The description a 500 response carries for what the handler threw.
Description(threw) == IF threw = "throws" THEN "what()" ELSE "(unknown)"

\* C13: an exception thrown by the page handler does not leave the
\* connection's code, and on a connection that takes writes the 500 head and
\* a document with the exception's description ((unknown) for an exception
\* that is not a std::exception) are emitted in the same event.
C13_ExceptionsCaught ==
    /\ ~obs.escaped
    /\ (obs.threw # "no" /\ obs.threwOpen)
       => {"InternalServerError", Description(obs.threw)} \subseteq obs.emitted

\* C13 case: a handler dispatched from BUFFERING_POST_DATA, the body
\* complete, threw something that is not a std::exception, and the 500 with
\* (unknown) was emitted.
C13_Witness ==
    /\ obs.threw = "throwsOther" /\ obs.threwOpen
    /\ conn.body = PostLen /\ conn.pending.contentLength = PostLen
    /\ "(unknown)" \in obs.emitted


C24_DisconnectAfterConnect ==
    \A h \in Handlers : cb.onDisconnect[h] > 0 => cb.onConnect[h] > 0

\* C26: when an event ends with the connection open and output pending, the
\* connection is subscribed to write events.
C26_PendingIsSubscribed ==
    (Open /\ ~xfer.active /\ conn.outBuf # <<>>) => srv.subscribed

\* C27: every range handed to the copy loop, for any accepted Range header,
\* lies in the file: 0 <= start <= end <= size - 1.
C27_RangesInFile ==
    rng.phase \in {"copying", "done"} =>
        \A i \in 1..Len(rng.ranges) :
            /\ 0 <= rng.ranges[i].start
            /\ rng.ranges[i].start <= rng.ranges[i].end
            /\ rng.ranges[i].end <= rng.size - 1


\* C28: the extra header lines written in a Hixie 101 response are those of
\* the upgrade request alone: one Sec-WebSocket-Origin line and one
\* Sec-WebSocket-Location line at most.
C28_OwnHeadersOnly ==
    \A i \in 1..Len(obs.accepted) :
        obs.accepted[i].kind = "hixieExtraHeaders" => obs.accepted[i].len <= 2 * LineLen

RECURSIVE FramePayloads(_)
FramePayloads(buf) ==
    IF endOfMessage(buf) = 0 THEN <<>>
    ELSE <<InSize(SubSeq(buf, 1, endOfMessage(buf))) - 2>>
             \o FramePayloads(SubSeq(buf, endOfMessage(buf) + 1, Len(buf)))

RECURSIVE IncompleteTail(_)
IncompleteTail(buf) ==
    IF endOfMessage(buf) = 0 THEN buf
    ELSE IncompleteTail(SubSeq(buf, endOfMessage(buf) + 1, Len(buf)))

\* C21: in HANDLING_HIXIE_WEBSOCKET, when the input holds no protocol
\* error, every complete frame is delivered to onData once, in arrival
\* order, with exactly the bytes between its delimiters, and the buffer is
\* left holding exactly the incomplete trailing frame.
C21_HixieFrames ==
    (obs.hixieInput # <<>> /\ ~obs.broken) =>
        /\ obs.messages = FramePayloads(obs.hixieInput)
        /\ conn.inBuf = IncompleteTail(obs.hixieInput)

\* C25: no onData, onConnect or page-handler dispatch is made for a
\* connection that is already closed, whatever complete frames or requests
\* are still in the input buffer.
C25_NoCallbackAfterClose == ~obs.lateCall

\* C22: in HANDLING_HYBI_WEBSOCKET every decoded PING has produced one
\* PONG frame carrying its payload, written to the output before the next
\* frame is decoded, and the process has not been brought down by one.
C22_PingPong ==
    ~obs.aborted /\ obs.pongs = obs.pings

=============================================================================
